---- MODULE Spec2Model ----
(***************************************************************************)
(* Model of the icon tooling under scripts/:                               *)
(*   generate_brand_assets.py  (_is_background_red, _find_content_bbox,    *)
(*                              _square_crop, _make_transparent_foreground,*)
(*                              generate_icons, main)                      *)
(*   fix_adaptive_icon.py      (create_adaptive_foreground,                *)
(*                              create_app_icon, __main__)                 *)
(* Python names with a leading underscore are written without it.          *)
(*                                                                         *)
(* Each routine has its own specification (SpecCrop, SpecBbox, SpecKey,    *)
(* SpecScale, SpecGen, SpecMain); a specification leaves the variables of  *)
(* the others at their idle values.                                        *)
(***************************************************************************)
EXTENDS Integers, Sequences, FiniteSets, TLC

VARIABLES
    pc,         \* position of the routine or script(s) under check
    cropIn,     \* _square_crop: the arguments [w, h, bbox, pad]
    cropOut,    \* _square_crop: the box handed to img.crop
    bbImg,      \* _find_content_bbox: the argument image
    bbOut,      \* _find_content_bbox: the returned box
    keyIn,      \* _make_transparent_foreground: the first argument image
    keyPrev,    \* the result of the call before the last one
    keyOut,     \* the result of the last call
    keyRuns,    \* how many times it has been applied
    scaleIn,    \* create_adaptive_foreground / create_app_icon: arguments
    scaleOut,   \* their locals: fill size, new size, offsets, canvas size
    fs,         \* the file system: path -> file content
    written,    \* the files written so far, as <<script, path>>
    source,     \* generate_icons: the decoded source image
    base,       \* generate_icons: local base
    bbox,       \* generate_icons: local bbox
    cropped,    \* generate_icons: local cropped
    icon,       \* generate_icons: local icon
    fg,         \* generate_icons: local fg
    saved       \* generate_icons: the file names saved so far

cropVars == <<cropIn, cropOut>>
bbVars == <<bbImg, bbOut>>
keyVars == <<keyIn, keyPrev, keyOut, keyRuns>>
scaleVars == <<scaleIn, scaleOut>>
mainVars == <<fs, written>>
genVars == <<source, base, bbox, cropped, icon, fg, saved>>

vars == <<pc, cropVars, bbVars, keyVars, scaleVars, mainVars, genVars>>

\* ------------------------------------------------------------------ bounds
MaxW == 4           \* SpecCrop: image width
MaxH == 4           \* SpecCrop: image height
MaxPad == 2         \* SpecCrop: pad
MaxGridW == 3       \* SpecBbox: image width
MaxGridH == 3       \* SpecBbox: image height
MaxKeyW == 2        \* SpecKey: image width
MaxKeyH == 2        \* SpecKey: image height
MaxRuns == 2        \* SpecKey: applications of the chroma key
MaxCanvas == 10     \* SpecScale: canvas_size / size
MaxDim == 7         \* SpecScale: source width and height
MaxSide == 9        \* SpecGen: side of the content square
MaxMargin == 4      \* SpecGen: background left of / above the square
WideMargin == 82    \* SpecGen: a margin wider than the crop padding

\* ------------------------------------------------------- program constants
GenPad == 80            \* generate_icons: _square_crop(base, bbox, pad=80)
IconSize == 1024        \* generate_icons: cropped.resize((1024, 1024), ...)
LanczosSupport == 3     \* Image.Resampling.LANCZOS: a kernel of 3 source pixels
FixCanvas == 1024       \* __main__: create_adaptive_foreground(..., 1024)

\* ------------------------------------------------------------ arithmetic
Max(a, b) == IF a >= b THEN a ELSE b
Min(a, b) == IF a <= b THEN a ELSE b

RECURSIVE Gcd(_, _)
Gcd(a, b) == IF b = 0 THEN a ELSE Gcd(b, a % b)

RECURSIVE IsPow2(_)
IsPow2(n) == n = 1 \/ (n > 1 /\ n % 2 = 0 /\ IsPow2(n \div 2))

\* ------------------------------------------------------------------ images
\* An image is a record with kind, mode ("RGB": pixels <<r, g, b>>; "RGBA":
\* pixels <<r, g, b, a>>), w, h, and by kind:
\*   "grid"   px: <<x, y>> -> pixel, every pixel stored
\*   "solid"  bg, fg, box: colour fg inside box (l, t, r, b), bg elsewhere
\*   "paste"  fill, ox, oy, src: src pasted at (ox, oy) on a canvas of fill
\*   "crop"   box, src: the part of src inside box
\*   "probe"  px: <<x, y>> -> pixel, only the pixels the checks look at
NoBox == <<0, 0, 0, 0>>
NoImage == [kind |-> "grid", mode |-> "RGB", w |-> 0, h |-> 0, px |-> <<>>]

\* img.convert('RGB') / the conversion paste() makes onto an RGB canvas.
convert_RGB(p) == <<p[1], p[2], p[3]>>

\* img.convert('RGBA'): an RGB pixel becomes opaque, an RGBA pixel is kept.
convert_RGBA(mode, p) == IF mode = "RGBA" THEN p ELSE <<p[1], p[2], p[3], 255>>

InBox(box, x, y) == box[1] <= x /\ x < box[3] /\ box[2] <= y /\ y < box[4]

RECURSIVE Pixel(_, _, _)
Pixel(img, x, y) ==
    CASE img.kind = "solid" ->
           IF InBox(img.box, x, y) THEN img.fg ELSE img.bg
      [] img.kind = "paste" ->
           IF InBox(<<img.ox, img.oy, img.ox + img.src.w, img.oy + img.src.h>>, x, y)
           THEN convert_RGB(Pixel(img.src, x - img.ox, y - img.oy))
           ELSE img.fill
      [] img.kind = "crop" -> Pixel(img.src, x + img.box[1], y + img.box[2])
      [] OTHER -> img.px[<<x, y>>]

\* ====================================================== generate_brand_assets
is_background_red(r, g, b) == r > 200 /\ g < 90 /\ b < 90

\* ------------------------------------------------------ _find_content_bbox
\* The body of the two loops for one pixel: acc is [left, top, right, bottom, found].
bbox_step(acc, x, y, p) ==
    IF ~is_background_red(p[1], p[2], p[3])
    THEN [found  |-> TRUE,
          left   |-> IF x < acc.left THEN x ELSE acc.left,
          top    |-> IF y < acc.top THEN y ELSE acc.top,
          right  |-> IF x > acc.right THEN x ELSE acc.right,
          bottom |-> IF y > acc.bottom THEN y ELSE acc.bottom]
    ELSE acc

\* for x in range(lo, hi), in increasing x. The range is walked as two halves,
\* the left one first, to keep the evaluation stack shallow; the test on
\* a.found only makes the left half's result be computed before the right.
RECURSIVE bbox_row(_, _, _, _, _)
bbox_row(img, y, lo, hi, acc) ==
    IF hi <= lo THEN acc
    ELSE IF hi = lo + 1 THEN bbox_step(acc, lo, y, convert_RGB(Pixel(img, lo, y)))
    ELSE LET mid == (lo + hi) \div 2
             a == bbox_row(img, y, lo, mid, acc)
         IN  IF a.found \in BOOLEAN THEN bbox_row(img, y, mid, hi, a) ELSE a

\* for y in range(lo, hi), in increasing y, each row scanned whole.
RECURSIVE bbox_rows(_, _, _, _)
bbox_rows(img, lo, hi, acc) ==
    IF hi <= lo THEN acc
    ELSE IF hi = lo + 1 THEN bbox_row(img, lo, 0, img.w, acc)
    ELSE LET mid == (lo + hi) \div 2
             a == bbox_rows(img, lo, mid, acc)
         IN  IF a.found \in BOOLEAN THEN bbox_rows(img, mid, hi, a) ELSE a

\* Variant: the largest coordinates returned as they are (inclusive bounds).
find_content_bbox_inclusive(img) ==
    LET acc == bbox_rows(img, 0, img.h,
                   [left |-> img.w, top |-> img.h, right |-> 0, bottom |-> 0,
                    found |-> FALSE])
    IN  IF ~acc.found THEN <<0, 0, img.w, img.h>>
        ELSE <<acc.left, acc.top, acc.right, acc.bottom>>

\* Variant: without the "if not found" fallback.
find_content_bbox_nofallback(img) ==
    LET acc == bbox_rows(img, 0, img.h,
                   [left |-> img.w, top |-> img.h, right |-> 0, bottom |-> 0,
                    found |-> FALSE])
    IN  IF ~acc.found THEN <<acc.left, acc.top, acc.right, acc.bottom>>
        ELSE <<acc.left, acc.top, acc.right + 1, acc.bottom + 1>>

find_content_bbox(img) ==
    LET acc == bbox_rows(img, 0, img.h,
                   [left |-> img.w, top |-> img.h, right |-> 0, bottom |-> 0,
                    found |-> FALSE])
    IN  IF ~acc.found THEN <<0, 0, img.w, img.h>>
        ELSE <<acc.left, acc.top, acc.right + 1, acc.bottom + 1>>

\* ------------------------------------------------------------ _square_crop
\* Variant: the side of the window taken from the shorter side of the box.
square_crop_minside(w, h, box, pad) ==
    LET l == Max(0, box[1] - pad)
        t == Max(0, box[2] - pad)
        r == Min(w, box[3] + pad)
        b == Min(h, box[4] + pad)
        bw == r - l
        bh == b - t
        size == Min(bw, bh)
        cx == l + bw \div 2
        cy == t + bh \div 2
        sl0 == Max(0, cx - size \div 2)
        st0 == Max(0, cy - size \div 2)
        sr == Min(w, sl0 + size)
        sb == Min(h, st0 + size)
        sl == Max(0, sr - size)
        st == Max(0, sb - size)
    IN  <<sl, st, sr, sb>>

\* The (sl, st, sr, sb) box passed to img.crop for an image of size w x h.
square_crop(w, h, box, pad) ==
    LET l == Max(0, box[1] - pad)
        t == Max(0, box[2] - pad)
        r == Min(w, box[3] + pad)
        b == Min(h, box[4] + pad)
        bw == r - l
        bh == b - t
        size == Max(bw, bh)
        cx == l + bw \div 2
        cy == t + bh \div 2
        sl0 == Max(0, cx - size \div 2)
        st0 == Max(0, cy - size \div 2)
        sr == Min(w, sl0 + size)
        sb == Min(h, st0 + size)
        sl == Max(0, sr - size)
        st == Max(0, sb - size)
    IN  <<sl, st, sr, sb>>

\* -------------------------------------------- _make_transparent_foreground
\* Variant: a background pixel is cleared in all four channels.
key_pixel_clear(p) ==
    IF is_background_red(p[1], p[2], p[3]) THEN <<0, 0, 0, 0>>
    ELSE <<p[1], p[2], p[3], p[4]>>

\* Variant: the alpha of a content pixel is halved.
key_pixel_soften(p) ==
    IF is_background_red(p[1], p[2], p[3]) THEN <<p[1], p[2], p[3], 0>>
    ELSE <<p[1], p[2], p[3], p[4] \div 2>>

\* The loop body: one (r, g, b, a) of rgba.getdata() to one element of new.
key_pixel(p) ==
    IF is_background_red(p[1], p[2], p[3]) THEN <<p[1], p[2], p[3], 0>>
    ELSE <<p[1], p[2], p[3], p[4]>>

\* rgba.getdata(): the pixels row by row, as a sequence.
getdata(img) ==
    [i \in 1..(img.w * img.h) |->
        convert_RGBA(img.mode, Pixel(img, (i - 1) % img.w, (i - 1) \div img.w))]

\* rgba.putdata(new): the sequence written back row by row.
putdata(img, new) ==
    [img EXCEPT !.mode = "RGBA",
                !.px = [p \in (0..img.w - 1) \X (0..img.h - 1) |->
                            new[p[2] * img.w + p[1] + 1]]]

make_transparent_foreground(img) ==
    IF img.kind = "probe"
    THEN [img EXCEPT !.mode = "RGBA",
                     !.px = [p \in DOMAIN img.px |->
                                key_pixel(convert_RGBA(img.mode, img.px[p]))]]
    ELSE LET data == getdata(img)
             new == [i \in 1..Len(data) |-> key_pixel(data[i])]
         IN  putdata(img, new)

\* ------------------------------------------------------- Image.resize model
\* cropped.resize((out, out), LANCZOS). The Lanczos kernel weighs the source
\* pixels within LanczosSupport pixels of the output pixel's centre, stretched
\* by the scale when the image shrinks, and its weights are normalised: an
\* output pixel whose window holds one source value has that value; any other
\* output pixel is a blend whose class the model leaves open.
SupportRadius(inSize, outSize) ==
    (LanczosSupport * Max(inSize, outSize) + outSize - 1) \div outSize

\* The source index under the centre of output pixel i.
SourceIndex(i, inSize, outSize) == ((2 * i + 1) * inSize) \div (2 * outSize)

Window(i, inSize, outSize) ==
    Max(0, SourceIndex(i, inSize, outSize) - SupportRadius(inSize, outSize))
    .. Min(inSize - 1, SourceIndex(i, inSize, outSize) + SupportRadius(inSize, outSize))

\* What a blend may come out as: a background pixel, an opaque content pixel
\* and, where there is an alpha channel, a transparent content pixel.
Blends(mode) ==
    IF mode = "RGBA"
    THEN {<<255, 42, 42, 255>>, <<90, 90, 90, 255>>, <<90, 90, 90, 0>>}
    ELSE {<<255, 42, 42>>, <<90, 90, 90>>}

ResizedPixels(img, i, j, outSize) ==
    LET vals == {Pixel(img, x, y) : x \in Window(i, img.w, outSize),
                                    y \in Window(j, img.h, outSize)}
    IN  IF Cardinality(vals) = 1 THEN vals ELSE Blends(img.mode)

\* The output pixels the checks look at: the four corners and the centre.
ProbePoints(n) ==
    <<<<0, 0>>, <<n - 1, 0>>, <<0, n - 1>>, <<n - 1, n - 1>>, <<n \div 2, n \div 2>>>>

\* ========================================================== fix_adaptive_icon
\* int(x) of a float quotient. exactNum / exactDen is the quotient in exact
\* arithmetic; the code forms img_ratio = w / h in floating point first. When
\* w / h is a binary fraction, or the exact quotient is not an integer, the
\* float result truncates to the exact floor. Otherwise the rounding of w / h
\* decides between the exact quotient and one less: for fill <= 12 or fill in
\* {675, 921}, and w, h <= 9, IEEE double arithmetic falls short exactly at
\* (fill, w, h) = (9, 9, 7); beyond that range both outcomes are kept.
TruncatedQuotients(fill, w, h) ==
    LET num == IF w > h THEN fill * h ELSE fill * w
        den == IF w > h THEN w ELSE h
        q == num \div den
    IN  IF num % den # 0 \/ IsPow2(h \div Gcd(w, h)) THEN {q}
        ELSE IF (fill <= 12 \/ fill \in {675, 921}) /\ w <= 9 /\ h <= 9
             THEN (IF <<fill, w, h>> = <<9, 9, 7>> THEN {q - 1} ELSE {q})
             ELSE {q - 1, q}

\* int(canvas_size * 0.66) and int(size * 0.90): percent is 66 or 90.
fill_size(canvas, percent) == (canvas * percent) \div 100

\* Lines 21-27 / 54-60: the sizes (new_width, new_height) img.resize may get.
target_sizes(fill, w, h) ==
    IF w > h
    THEN {<<fill, nh>> : nh \in TruncatedQuotients(fill, w, h)}
    ELSE {<<nw, fill>> : nw \in TruncatedQuotients(fill, w, h)}

\* img.resize((new_width, new_height), LANCZOS) raises ValueError for a size
\* below 1 x 1.
resize_raises(size) == size[1] < 1 \/ size[2] < 1

\* Variant: the offset rounded up instead of down.
x_offset_ceil(canvas, size) == (canvas - size[1] + 1) \div 2

x_offset(canvas, size) == (canvas - size[1]) \div 2
y_offset(canvas, size) == (canvas - size[2]) \div 2

\* Lines 15-42 (percent 66) and 49-71 (percent 90): every way the call can
\* end for a w x h source, as [pc, out]. pc is "saved" after canvas.save and
\* "raised" when img.resize raised; out holds the locals computed by then.
create_outcomes(canvas, percent, w, h) ==
    LET fill == fill_size(canvas, percent)
    IN  {IF resize_raises(size)
         THEN [pc |-> "raised",
               out |-> [fill |-> fill, new_width |-> size[1], new_height |-> size[2],
                        x_offset |-> 0, y_offset |-> 0, canvas_w |-> 0, canvas_h |-> 0]]
         ELSE [pc |-> "saved",
               out |-> [fill |-> fill, new_width |-> size[1], new_height |-> size[2],
                        x_offset |-> x_offset(canvas, size),
                        y_offset |-> y_offset(canvas, size),
                        canvas_w |-> canvas, canvas_h |-> canvas]] :
         size \in target_sizes(fill, w, h)}

create_adaptive_foreground(canvas, w, h) == create_outcomes(canvas, 66, w, h)
create_app_icon(canvas, w, h) == create_outcomes(canvas, 90, w, h)

\* ================================================================ idle values
NoCropIn == [w |-> 0, h |-> 0, bbox |-> NoBox, pad |-> 0]
NoScaleIn == [fn |-> "none", canvas |-> 0, w |-> 0, h |-> 0]
NoScaleOut == [fill |-> 0, new_width |-> 0, new_height |-> 0,
               x_offset |-> 0, y_offset |-> 0, canvas_w |-> 0, canvas_h |-> 0]

IdleCrop == cropIn = NoCropIn /\ cropOut = NoBox
IdleBbox == bbImg = NoImage /\ bbOut = NoBox
IdleKey == keyIn = NoImage /\ keyPrev = NoImage /\ keyOut = NoImage /\ keyRuns = 0
IdleScale == scaleIn = NoScaleIn /\ scaleOut = NoScaleOut
IdleMain == fs = <<>> /\ written = {}
IdleGen ==
    /\ source = NoImage /\ base = NoImage /\ bbox = NoBox /\ cropped = NoImage
    /\ icon = NoImage /\ fg = NoImage /\ saved = {}

\* ================================================================ SpecCrop
\* _square_crop on every image size, box within the image, and pad.
Boxes(w, h) ==
    {bx \in (0..w) \X (0..h) \X (0..w) \X (0..h) : bx[1] <= bx[3] /\ bx[2] <= bx[4]}

InitCrop ==
    /\ pc = "call"
    /\ \E w \in 1..MaxW, h \in 1..MaxH, pad \in 0..MaxPad :
          \E bx \in Boxes(w, h) :
              cropIn = [w |-> w, h |-> h, bbox |-> bx, pad |-> pad]
    /\ cropOut = NoBox
    /\ IdleBbox /\ IdleKey /\ IdleScale /\ IdleMain /\ IdleGen

SquareCrop ==
    /\ pc = "call"
    /\ pc' = "returned"
    /\ cropOut' = square_crop(cropIn.w, cropIn.h, cropIn.bbox, cropIn.pad)
    /\ UNCHANGED <<cropIn, bbVars, keyVars, scaleVars, mainVars, genVars>>

NextCrop == SquareCrop

SpecCrop == InitCrop /\ [][NextCrop]_vars

\* ================================================================ SpecBbox
\* _find_content_bbox on every image of a background and a content colour.
BboxPalette == {<<255, 42, 42>>, <<0, 0, 0>>}

Grids(mode, w, h, palette) ==
    {[kind |-> "grid", mode |-> mode, w |-> w, h |-> h, px |-> f] :
        f \in [(0..w - 1) \X (0..h - 1) -> palette]}

InitBbox ==
    /\ pc = "call"
    /\ \E w \in 1..MaxGridW, h \in 1..MaxGridH : bbImg \in Grids("RGB", w, h, BboxPalette)
    /\ bbOut = NoBox
    /\ IdleCrop /\ IdleKey /\ IdleScale /\ IdleMain /\ IdleGen

FindContentBbox ==
    /\ pc = "call"
    /\ pc' = "returned"
    /\ bbOut' = find_content_bbox(bbImg)
    /\ UNCHANGED <<bbImg, cropVars, keyVars, scaleVars, mainVars, genVars>>

NextBbox == FindContentBbox

SpecBbox == InitBbox /\ [][NextBbox]_vars

\* ================================================================= SpecKey
\* _make_transparent_foreground applied to an image, then to its own result.
\* The pixels sit on both sides of each threshold of _is_background_red.
KeyPaletteRGBA == {<<201, 89, 89, 128>>, <<200, 89, 89, 64>>, <<201, 90, 89, 0>>}
KeyPaletteRGB == {<<201, 89, 89>>, <<201, 89, 90>>}

InitKey ==
    /\ pc = "call"
    /\ \E w \in 1..MaxKeyW, h \in 1..MaxKeyH :
          \/ keyIn \in Grids("RGBA", w, h, KeyPaletteRGBA)
          \/ keyIn \in Grids("RGB", w, h, KeyPaletteRGB)
    /\ keyPrev = NoImage
    /\ keyOut = keyIn
    /\ keyRuns = 0
    /\ IdleCrop /\ IdleBbox /\ IdleScale /\ IdleMain /\ IdleGen

MakeTransparentForeground ==
    /\ keyRuns < MaxRuns
    /\ keyRuns' = keyRuns + 1
    /\ keyPrev' = keyOut
    /\ keyOut' = make_transparent_foreground(keyOut)
    /\ pc' = "returned"
    /\ UNCHANGED <<keyIn, cropVars, bbVars, scaleVars, mainVars, genVars>>

NextKey == MakeTransparentForeground

SpecKey == InitKey /\ [][NextKey]_vars

\* =============================================================== SpecScale
\* create_adaptive_foreground and create_app_icon on a w x h source.
Canvases == (1..MaxCanvas) \cup {FixCanvas}

InitScale ==
    /\ pc = "call"
    /\ \E fn \in {"create_adaptive_foreground", "create_app_icon"},
          canvas \in Canvases, w \in 1..MaxDim, h \in 1..MaxDim :
              scaleIn = [fn |-> fn, canvas |-> canvas, w |-> w, h |-> h]
    /\ scaleOut = NoScaleOut
    /\ IdleCrop /\ IdleBbox /\ IdleKey /\ IdleMain /\ IdleGen

CreateAdaptiveForeground ==
    /\ pc = "call"
    /\ scaleIn.fn = "create_adaptive_foreground"
    /\ \E o \in create_adaptive_foreground(scaleIn.canvas, scaleIn.w, scaleIn.h) :
          pc' = o.pc /\ scaleOut' = o.out
    /\ UNCHANGED <<scaleIn, cropVars, bbVars, keyVars, mainVars, genVars>>

CreateAppIcon ==
    /\ pc = "call"
    /\ scaleIn.fn = "create_app_icon"
    /\ \E o \in create_app_icon(scaleIn.canvas, scaleIn.w, scaleIn.h) :
          pc' = o.pc /\ scaleOut' = o.out
    /\ UNCHANGED <<scaleIn, cropVars, bbVars, keyVars, mainVars, genVars>>

NextScale == CreateAdaptiveForeground \/ CreateAppIcon

SpecScale == InitScale /\ [][NextScale]_vars

\* ================================================================ SpecMain
\* The two scripts' entry points over one file system. A path is <<root, name>>
\* (root "phone" is PROJECT_ROOT/assets/images, root "tv" is
\* PROJECT_ROOT/movieflixtv/assets/images); a file is [kind, w, h] with kind
\* "missing", "corrupt" (exists, does not decode) or "png". pc is
\* [fix |-> position of fix_adaptive_icon.py, gen |-> position of
\* generate_brand_assets.py]; neither script deletes a file.
SourcePng == <<"downloads", "1000373061.png">>
AppIcon(root) == <<root, "app-icon.png">>
AdaptiveForeground(root) == <<root, "adaptive-foreground.png">>
AdaptiveMonochrome(root) == <<root, "adaptive-monochrome.png">>
Favicon(root) == <<root, "favicon.png">>
Outputs(root) ==
    {AppIcon(root), AdaptiveForeground(root), AdaptiveMonochrome(root), Favicon(root)}
Paths == {SourcePng} \cup Outputs("phone") \cup Outputs("tv")

Missing == [kind |-> "missing", w |-> 0, h |-> 0]
Corrupt == [kind |-> "corrupt", w |-> 0, h |-> 0]
Png(w, h) == [kind |-> "png", w |-> w, h |-> h]

\* os.path.exists / Path.exists
exists(path) == fs[path].kind # "missing"

InitMain ==
    /\ pc = [fix |-> "phone_check", gen |-> "start"]
    /\ \E src \in {Missing, Corrupt, Png(800, 600)},
          phone \in {Missing, Corrupt, Png(1024, 1024), Png(700, 1)},
          tv \in {Missing, Corrupt, Png(1024, 1024), Png(700, 1)} :
              fs = [path \in Paths |->
                       IF path = SourcePng THEN src
                       ELSE IF path = AppIcon("phone") THEN phone
                       ELSE IF path = AppIcon("tv") THEN tv
                       ELSE Missing]
    /\ written = {}
    /\ IdleCrop /\ IdleBbox /\ IdleKey /\ IdleScale /\ IdleGen

\* --------------------------------------------- fix_adaptive_icon.py __main__
\* Variant: the phone icon processed without the os.path.exists test.
FixPhoneCheck_unguarded ==
    /\ pc.fix = "phone_check"
    /\ pc' = [pc EXCEPT !.fix = "phone_create"]
    /\ UNCHANGED <<cropVars, bbVars, keyVars, scaleVars, mainVars, genVars>>

\* if os.path.exists(phone_icon):
FixPhoneCheck ==
    /\ pc.fix = "phone_check"
    /\ pc' = [pc EXCEPT !.fix = IF exists(AppIcon("phone")) THEN "phone_create"
                                ELSE "tv_check"]
    /\ UNCHANGED <<cropVars, bbVars, keyVars, scaleVars, mainVars, genVars>>

\* create_adaptive_foreground(icon, foreground, 1024) called by the script:
\* Image.open raises for a file that is missing or does not decode,
\* img.resize may raise, and otherwise the canvas is saved.
FixCreate(root, next) ==
    \/ /\ fs[AppIcon(root)].kind # "png"
       /\ pc' = [pc EXCEPT !.fix = "raised"]
       /\ UNCHANGED mainVars
    \/ /\ fs[AppIcon(root)].kind = "png"
       /\ \E o \in create_adaptive_foreground(FixCanvas, fs[AppIcon(root)].w,
                                              fs[AppIcon(root)].h) :
             IF o.pc = "saved"
             THEN /\ fs' = [fs EXCEPT ![AdaptiveForeground(root)] =
                                          Png(o.out.canvas_w, o.out.canvas_h)]
                  /\ written' = written \cup {<<"fix", AdaptiveForeground(root)>>}
                  /\ pc' = [pc EXCEPT !.fix = next]
             ELSE /\ pc' = [pc EXCEPT !.fix = "raised"]
                  /\ UNCHANGED mainVars

FixPhoneCreate ==
    /\ pc.fix = "phone_create"
    /\ FixCreate("phone", "tv_check")
    /\ UNCHANGED <<cropVars, bbVars, keyVars, scaleVars, genVars>>

\* if os.path.exists(tv_icon): ... else straight to the final prints.
FixTvCheck ==
    /\ pc.fix = "tv_check"
    /\ pc' = [pc EXCEPT !.fix = IF exists(AppIcon("tv")) THEN "tv_create" ELSE "done"]
    /\ UNCHANGED <<cropVars, bbVars, keyVars, scaleVars, mainVars, genVars>>

FixTvCreate ==
    /\ pc.fix = "tv_create"
    /\ FixCreate("tv", "done")
    /\ UNCHANGED <<cropVars, bbVars, keyVars, scaleVars, genVars>>

NextFix == FixPhoneCheck \/ FixPhoneCreate \/ FixTvCheck \/ FixTvCreate

\* ------------------------------------------------ generate_brand_assets.main
\* Variant: main without the src.exists() test.
GenStart_unguarded ==
    /\ pc.gen = "start"
    /\ pc' = [pc EXCEPT !.gen = "root_phone"]
    /\ UNCHANGED <<cropVars, bbVars, keyVars, scaleVars, mainVars, genVars>>

\* if not src.exists(): raise SystemExit('Missing source PNG: ...')
GenStart ==
    /\ pc.gen = "start"
    /\ pc' = [pc EXCEPT !.gen = IF exists(SourcePng) THEN "root_phone" ELSE "exit"]
    /\ UNCHANGED <<cropVars, bbVars, keyVars, scaleVars, mainVars, genVars>>

\* One turn of "for root in [...]": generate_icons(src, OutputSet(root)).
\* Image.open raises for a source that does not decode; otherwise the four
\* files are saved (SpecGen follows the pixels).
GenerateIcons(root, next) ==
    \/ /\ fs[SourcePng].kind # "png"
       /\ pc' = [pc EXCEPT !.gen = "raised"]
       /\ UNCHANGED mainVars
    \/ /\ fs[SourcePng].kind = "png"
       /\ fs' = [path \in Paths |->
                    IF path \in {AppIcon(root), AdaptiveForeground(root),
                                 AdaptiveMonochrome(root)}
                    THEN Png(IconSize, IconSize)
                    ELSE IF path = Favicon(root) THEN Png(48, 48)
                    ELSE fs[path]]
       /\ written' = written \cup {<<"gen", path>> : path \in Outputs(root)}
       /\ pc' = [pc EXCEPT !.gen = next]

GenRootPhone ==
    /\ pc.gen = "root_phone"
    /\ GenerateIcons("phone", "root_tv")
    /\ UNCHANGED <<cropVars, bbVars, keyVars, scaleVars, genVars>>

GenRootTv ==
    /\ pc.gen = "root_tv"
    /\ GenerateIcons("tv", "done")
    /\ UNCHANGED <<cropVars, bbVars, keyVars, scaleVars, genVars>>

NextGenMain == GenStart \/ GenRootPhone \/ GenRootTv

NextMain == NextFix \/ NextGenMain

\* A script that has been started runs on until it ends or raises.
SpecMain ==
    InitMain /\ [][NextMain]_vars /\ WF_vars(NextFix) /\ WF_vars(NextGenMain)

\* ================================================================= SpecGen
\* generate_icons followed step by step on a source with a solid background
\* and a centred square of content. pc is the statement reached.
CanvasFill == <<255, 42, 42>>

\* Variant: the square canvas filled with white.
normalize_to_square_white(img) ==
    IF img.w # img.h
    THEN LET size == Max(img.w, img.h)
         IN  [kind |-> "paste", mode |-> "RGB", w |-> size, h |-> size,
              fill |-> <<255, 255, 255>>,
              ox |-> (size - img.w) \div 2, oy |-> (size - img.h) \div 2,
              src |-> img]
    ELSE img

\* Lines 89-94: a source that is not square is pasted, centred, on a square
\* RGB canvas of (255, 42, 42).
normalize_to_square(img) ==
    IF img.w # img.h
    THEN LET size == Max(img.w, img.h)
         IN  [kind |-> "paste", mode |-> "RGB", w |-> size, h |-> size,
              fill |-> CanvasFill,
              ox |-> (size - img.w) \div 2, oy |-> (size - img.h) \div 2,
              src |-> img]
    ELSE img

\* img.crop(box) as an image.
crop(img, box) ==
    [kind |-> "crop", mode |-> img.mode, w |-> box[3] - box[1],
     h |-> box[4] - box[2], box |-> box, src |-> img]

\* A w x h source: background bgp, and a side x side square of fgp placed
\* with (w - side) \div 2 columns left of it and (h - side) \div 2 rows above.
CenteredSquare(mode, bgp, fgp, w, h, side) ==
    [kind |-> "solid", mode |-> mode, w |-> w, h |-> h, bg |-> bgp, fg |-> fgp,
     box |-> <<(w - side) \div 2, (h - side) \div 2,
               (w - side) \div 2 + side, (h - side) \div 2 + side>>]

\* <<mode, background, content>>: the fill colour and a background on the
\* thresholds, opaque and transparent content.
Variants ==
    {<<"RGB", <<255, 42, 42>>, <<0, 0, 0>>>>,
     <<"RGB", <<201, 89, 89>>, <<200, 89, 89>>>>,
     <<"RGBA", <<255, 42, 42, 255>>, <<0, 0, 0, 255>>>>,
     <<"RGBA", <<255, 42, 42, 255>>, <<0, 0, 0, 0>>>>}

InitGen ==
    /\ pc = "open"
    /\ \E v \in Variants :
          \* small sources: every side and margin, with and without an odd pixel
          \/ \E side \in 1..MaxSide, mx \in 0..MaxMargin, my \in 0..MaxMargin,
                ex \in 0..1, ey \in 0..1 :
                  /\ mx + ex + my + ey > 0
                  /\ source = CenteredSquare(v[1], v[2], v[3],
                                  side + 2 * mx + ex, side + 2 * my + ey, side)
          \* sources wider than the square plus twice the padding
          \/ \E my \in {MaxMargin, WideMargin} :
                  source = CenteredSquare(v[1], v[2], v[3],
                               MaxSide + 2 * WideMargin, MaxSide + 2 * my, MaxSide)
          \* the 800 x 600 source with a 200 x 200 square
          \/ /\ v = <<"RGB", <<255, 42, 42>>, <<0, 0, 0>>>>
             /\ source = CenteredSquare(v[1], v[2], v[3], 800, 600, 200)
    /\ base = NoImage /\ bbox = NoBox /\ cropped = NoImage
    /\ icon = NoImage /\ fg = NoImage /\ saved = {}
    /\ IdleCrop /\ IdleBbox /\ IdleKey /\ IdleScale /\ IdleMain

\* base = Image.open(source_png); if base.size[0] != base.size[1]: ...
NormalizeToSquare ==
    /\ pc = "open"
    /\ base' = normalize_to_square(source)
    /\ pc' = "bbox"
    /\ UNCHANGED <<source, bbox, cropped, icon, fg, saved,
                   cropVars, bbVars, keyVars, scaleVars, mainVars>>

\* bbox = _find_content_bbox(base)
DetectBbox ==
    /\ pc = "bbox"
    /\ bbox' = find_content_bbox(base)
    /\ pc' = "crop"
    /\ UNCHANGED <<source, base, cropped, icon, fg, saved,
                   cropVars, bbVars, keyVars, scaleVars, mainVars>>

\* cropped = _square_crop(base, bbox, pad=80)
CropToSquare ==
    /\ pc = "crop"
    /\ cropped' = crop(base, square_crop(base.w, base.h, bbox, GenPad))
    /\ pc' = "resize"
    /\ UNCHANGED <<source, base, bbox, icon, fg, saved,
                   cropVars, bbVars, keyVars, scaleVars, mainVars>>

\* icon = cropped.resize((1024, 1024), LANCZOS); icon.save('app-icon.png')
ResizeIcon ==
    /\ pc = "resize"
    /\ LET pts == ProbePoints(IconSize)
       IN  \E c1 \in ResizedPixels(cropped, pts[1][1], pts[1][2], IconSize),
              c2 \in ResizedPixels(cropped, pts[2][1], pts[2][2], IconSize),
              c3 \in ResizedPixels(cropped, pts[3][1], pts[3][2], IconSize),
              c4 \in ResizedPixels(cropped, pts[4][1], pts[4][2], IconSize),
              c5 \in ResizedPixels(cropped, pts[5][1], pts[5][2], IconSize) :
                 icon' = [kind |-> "probe", mode |-> cropped.mode,
                          w |-> IconSize, h |-> IconSize,
                          px |-> (pts[1] :> c1) @@ (pts[2] :> c2) @@ (pts[3] :> c3)
                                 @@ (pts[4] :> c4) @@ (pts[5] :> c5)]
    /\ saved' = saved \cup {"app-icon.png"}
    /\ pc' = "foreground"
    /\ UNCHANGED <<source, base, bbox, cropped, fg,
                   cropVars, bbVars, keyVars, scaleVars, mainVars>>

\* fg = _make_transparent_foreground(icon); fg.save('adaptive-foreground.png')
MakeForeground ==
    /\ pc = "foreground"
    /\ fg' = make_transparent_foreground(icon)
    /\ saved' = saved \cup {"adaptive-foreground.png"}
    /\ pc' = "derive"
    /\ UNCHANGED <<source, base, bbox, cropped, icon,
                   cropVars, bbVars, keyVars, scaleVars, mainVars>>

\* mono and favicon are derived from icon and saved.
SaveDerived ==
    /\ pc = "derive"
    /\ saved' = saved \cup {"adaptive-monochrome.png", "favicon.png"}
    /\ pc' = "done"
    /\ UNCHANGED <<source, base, bbox, cropped, icon, fg,
                   cropVars, bbVars, keyVars, scaleVars, mainVars>>

NextGen ==
    \/ NormalizeToSquare
    \/ DetectBbox
    \/ CropToSquare
    \/ ResizeIcon
    \/ MakeForeground
    \/ SaveDerived

SpecGen == InitGen /\ [][NextGen]_vars

\* ==================================================================== claims
MinOf(S) == CHOOSE m \in S : \A k \in S : m <= k
MaxOf(S) == CHOOSE m \in S : \A k \in S : m >= k

\* ------------------------------------------------------------------ SpecCrop
\* The box after the padding of lines 55-58.
PaddedBox(in) ==
    <<Max(0, in.bbox[1] - in.pad), Max(0, in.bbox[2] - in.pad),
      Min(in.w, in.bbox[3] + in.pad), Min(in.h, in.bbox[4] + in.pad)>>

\* C1: for every image size (square or not), box within the image and
\* pad >= 0, the window _square_crop computes is exactly square and lies
\* within the image.
C1_SquareWithinImage ==
    pc = "returned" =>
        /\ cropOut[3] - cropOut[1] = cropOut[4] - cropOut[2]
        /\ 0 <= cropOut[1] /\ cropOut[1] <= cropOut[3] /\ cropOut[3] <= cropIn.w
        /\ 0 <= cropOut[2] /\ cropOut[2] <= cropOut[4] /\ cropOut[4] <= cropIn.h

\* C2: the window _square_crop computes contains the whole padded box after
\* its clamping to the image, also when the window was shifted at an edge.
C2_ContainsPaddedBox ==
    pc = "returned" =>
        /\ cropOut[1] <= PaddedBox(cropIn)[1]
        /\ cropOut[2] <= PaddedBox(cropIn)[2]
        /\ cropOut[3] >= PaddedBox(cropIn)[3]
        /\ cropOut[4] >= PaddedBox(cropIn)[4]

\* A call whose centred window would end right of the image: the window ends
\* at the right edge and starts further left than the centred one, inside the
\* image, and left of the padded box.
C2_Witness ==
    LET pb == PaddedBox(cropIn)
        size == Max(pb[3] - pb[1], pb[4] - pb[2])
        centred == pb[1] + (pb[3] - pb[1]) \div 2 - size \div 2
    IN  /\ pc = "returned"
        /\ centred + size > cropIn.w
        /\ cropOut[3] = cropIn.w
        /\ cropOut[1] > 0
        /\ cropOut[1] < centred
        /\ cropOut[1] < pb[1]
        /\ cropIn.pad > 0

\* ------------------------------------------------------------------ SpecBbox
\* The pixels _is_background_red does not classify as background.
Content(img) ==
    {p \in (0..img.w - 1) \X (0..img.h - 1) :
        LET c == Pixel(img, p[1], p[2])
        IN  ~(c[1] > 200 /\ c[2] < 90 /\ c[3] < 90)}

\* C3: for an image with a non-background pixel, _find_content_bbox returns
\* the smallest x and y of the non-background pixels and the largest x and y
\* plus one, so the box holds each of them and lies within the image.
C3_MinimalBox ==
    (pc = "returned" /\ Content(bbImg) # {}) =>
        /\ bbOut[1] = MinOf({p[1] : p \in Content(bbImg)})
        /\ bbOut[2] = MinOf({p[2] : p \in Content(bbImg)})
        /\ bbOut[3] = MaxOf({p[1] : p \in Content(bbImg)}) + 1
        /\ bbOut[4] = MaxOf({p[2] : p \in Content(bbImg)}) + 1
        /\ \A p \in Content(bbImg) :
              /\ bbOut[1] <= p[1] /\ p[1] < bbOut[3]
              /\ bbOut[2] <= p[2] /\ p[2] < bbOut[4]
        /\ bbOut[1] < bbOut[3] /\ bbOut[3] <= bbImg.w
        /\ bbOut[2] < bbOut[4] /\ bbOut[4] <= bbImg.h

\* Two content pixels on a diagonal with background between and around them.
C3_Witness ==
    /\ pc = "returned"
    /\ Cardinality(Content(bbImg)) = 2
    /\ bbOut[3] - bbOut[1] = 3
    /\ bbOut[4] - bbOut[2] = 2
    /\ bbOut[1] = 0 /\ bbOut[2] = 1

\* C4: for an image with no non-background pixel, _find_content_bbox returns
\* (0, 0, width, height); the start values (width, height, 0, 0) are never
\* returned.
C4_AllBackground ==
    pc = "returned" =>
        /\ bbOut # <<bbImg.w, bbImg.h, 0, 0>>
        /\ Content(bbImg) = {} => bbOut = <<0, 0, bbImg.w, bbImg.h>>

\* A 3 x 2 image of background pixels only.
C4_Witness ==
    /\ pc = "returned"
    /\ Content(bbImg) = {}
    /\ bbImg.w = 3 /\ bbImg.h = 2
    /\ bbOut = <<0, 0, 3, 2>>

\* ------------------------------------------------------------------- SpecKey
\* C5: the result of _make_transparent_foreground has the size of its
\* argument; at each position a pixel with r > 200, g < 90 and b < 90 has
\* alpha 0 and its r, g, b, and any other pixel has its four channels.
C5_KeyedPixels ==
    keyRuns >= 1 =>
        /\ keyOut.w = keyPrev.w /\ keyOut.h = keyPrev.h
        /\ keyOut.mode = "RGBA"
        /\ DOMAIN keyOut.px = (0..keyPrev.w - 1) \X (0..keyPrev.h - 1)
        /\ \A x \in 0..keyPrev.w - 1, y \in 0..keyPrev.h - 1 :
              LET p == convert_RGBA(keyPrev.mode, Pixel(keyPrev, x, y))
                  q == Pixel(keyOut, x, y)
              IN  IF p[1] > 200 /\ p[2] < 90 /\ p[3] < 90
                  THEN q = <<p[1], p[2], p[3], 0>>
                  ELSE q = p

\* A first application to a 2 x 2 image with a background pixel that was not
\* transparent and a content pixel that is neither opaque nor transparent.
C5_Witness ==
    /\ keyRuns = 1
    /\ keyIn.w = 2 /\ keyIn.h = 2
    /\ Pixel(keyIn, 1, 0) = <<201, 89, 89, 128>>
    /\ Pixel(keyOut, 1, 0) = <<201, 89, 89, 0>>
    /\ Pixel(keyIn, 0, 1) = <<200, 89, 89, 64>>
    /\ Pixel(keyOut, 0, 1) = <<200, 89, 89, 64>>
    /\ Pixel(keyIn, 0, 0) = <<201, 90, 89, 0>>

\* C6: applying _make_transparent_foreground to its own result gives that
\* result again.
C6_Idempotent == keyRuns >= 2 => keyOut = keyPrev

\* A second application, after a first one that made a pixel transparent and
\* kept a half-transparent content pixel.
C6_Witness ==
    /\ keyRuns = 2
    /\ keyIn.mode = "RGBA"
    /\ \E p \in DOMAIN keyIn.px : keyIn.px[p][4] = 128 /\ keyOut.px[p][4] = 0
    /\ \E p \in DOMAIN keyIn.px : keyIn.px[p][4] = 64 /\ keyOut.px[p][4] = 64

\* ----------------------------------------------------------------- SpecScale
\* C7: the canvas create_adaptive_foreground saves is canvas_size x
\* canvas_size; on each axis the padding before the pasted image is >= 0, the
\* padding after it is at least as large and at most 1 larger, and the image
\* lies inside the canvas.
C7_Centered ==
    (pc = "saved" /\ scaleIn.fn = "create_adaptive_foreground") =>
        LET before == <<scaleOut.x_offset, scaleOut.y_offset>>
            after == <<scaleIn.canvas - scaleOut.new_width - scaleOut.x_offset,
                       scaleIn.canvas - scaleOut.new_height - scaleOut.y_offset>>
        IN  /\ scaleOut.canvas_w = scaleIn.canvas
            /\ scaleOut.canvas_h = scaleIn.canvas
            /\ \A k \in 1..2 :
                  /\ before[k] >= 0
                  /\ after[k] >= before[k]
                  /\ after[k] - before[k] <= 1
            /\ scaleOut.x_offset + scaleOut.new_width <= scaleIn.canvas
            /\ scaleOut.y_offset + scaleOut.new_height <= scaleIn.canvas

\* The call the script makes: a 1024 canvas, a wide source; 1024 - 675 is
\* odd, so the padding is 174 before the image and 175 after it.
C7_Witness ==
    /\ pc = "saved"
    /\ scaleIn.fn = "create_adaptive_foreground"
    /\ scaleIn.canvas = 1024
    /\ scaleIn.w > scaleIn.h
    /\ scaleOut.new_width = 675
    /\ scaleOut.x_offset = 174
    /\ scaleOut.new_height < 675
    /\ scaleOut.canvas_w = 1024

\* C10: in create_adaptive_foreground and create_app_icon, for every source
\* of at least 1 x 1 and every canvas size >= 2, the longer source side maps
\* to the fill size and the other side is at least 1 and at most the fill
\* size, whatever the aspect ratio.
C10_ValidTargetSize ==
    (pc \in {"saved", "raised"} /\ scaleIn.canvas >= 2) =>
        LET long == IF scaleIn.w > scaleIn.h THEN scaleOut.new_width
                    ELSE scaleOut.new_height
            short == IF scaleIn.w > scaleIn.h THEN scaleOut.new_height
                     ELSE scaleOut.new_width
        IN  /\ long = scaleOut.fill
            /\ scaleOut.fill = (scaleIn.canvas *
                  (IF scaleIn.fn = "create_app_icon" THEN 90 ELSE 66)) \div 100
            /\ 1 <= short /\ short <= scaleOut.fill

\* ------------------------------------------------------------------ SpecMain
FixWrote(root) == <<"fix", AdaptiveForeground(root)>> \in written
GenWrote == {e \in written : e[1] = "gen"}

\* C8: a missing source image never leads to an output file. The fixer writes
\* a target's adaptive-foreground.png only if that target's app-icon.png
\* exists; a missing icon is skipped without error, the other target is still
\* looked at, and with both icons missing the script reaches its final
\* message. The generator with its source missing exits before
\* generate_icons runs, and writes nothing under either root.
C8_FixerOutputsNeedIcon ==
    \A root \in {"phone", "tv"} : FixWrote(root) => exists(AppIcon(root))

C8_GeneratorNeedsSource ==
    ~exists(SourcePng) => (pc.gen \in {"start", "exit"} /\ GenWrote = {})

C8_MissingIsSkipped ==
    /\ (pc.fix = "phone_check" /\ ~exists(AppIcon("phone")) /\ pc'.fix # pc.fix)
          => (pc'.fix = "tv_check" /\ written' = written /\ fs' = fs)
    /\ (pc.fix = "tv_check" /\ ~exists(AppIcon("tv")) /\ pc'.fix # pc.fix)
          => (pc'.fix = "done" /\ written' = written /\ fs' = fs)
    /\ (pc.gen = "start" /\ ~exists(SourcePng) /\ pc'.gen # pc.gen)
          => (pc'.gen = "exit" /\ written' = written /\ fs' = fs)

C8_BothMissing ==
    /\ pc.fix = "phone_check"
    /\ ~exists(AppIcon("phone")) /\ ~exists(AppIcon("tv")) /\ ~exists(SourcePng)

\* The fixer at its start with the icon of root r1 missing and that of the
\* other root r2 a sound 1024 x 1024 PNG.
C8_OneMissing(r1, r2) ==
    /\ pc.fix = "phone_check"
    /\ ~exists(AppIcon(r1))
    /\ fs[AppIcon(r2)] = Png(1024, 1024)

C8_MissingSourceNoOutput ==
    /\ [](C8_FixerOutputsNeedIcon /\ C8_GeneratorNeedsSource)
    /\ [][C8_MissingIsSkipped]_vars
    /\ (C8_BothMissing ~> (pc.fix = "done" /\ written = {}))
    /\ (C8_OneMissing("phone", "tv") ~> (pc.fix = "done" /\ FixWrote("tv")))
    /\ (C8_OneMissing("tv", "phone") ~> (pc.fix = "done" /\ FixWrote("phone")))
    /\ (~exists(SourcePng) ~> pc.gen = "exit")

\* The fixer at its final message having skipped the missing phone icon and
\* written the TV foreground, and the generator stopped by its missing source.
C8_Witness ==
    /\ pc.fix = "done"
    /\ ~exists(AppIcon("phone"))
    /\ ~FixWrote("phone")
    /\ FixWrote("tv")
    /\ pc.gen = "exit"
    /\ written = {<<"fix", AdaptiveForeground("tv")>>}

\* ------------------------------------------------------------------- SpecGen
Classified(p) == p[1] > 200 /\ p[2] < 90 /\ p[3] < 90

After(steps) == pc \in steps

\* The offsets at which generate_icons pastes the source on its square canvas.
PasteOffset ==
    IF source.w = source.h THEN <<0, 0>>
    ELSE <<(Max(source.w, source.h) - source.w) \div 2,
           (Max(source.w, source.h) - source.h) \div 2>>

Corners(n) == {<<0, 0>>, <<n - 1, 0>>, <<0, n - 1>>, <<n - 1, n - 1>>}

\* What C9 says of generate_icons' locals, statement by statement.
C9_Conclusions ==
    /\ Classified(CanvasFill)
    /\ After({"crop", "resize", "foreground", "derive", "done"}) =>
          bbox = <<source.box[1] + PasteOffset[1], source.box[2] + PasteOffset[2],
                   source.box[3] + PasteOffset[1], source.box[4] + PasteOffset[2]>>
    /\ After({"resize", "foreground", "derive", "done"}) =>
          /\ cropped.w = cropped.h
          /\ \A c \in Corners(cropped.w) :
                Classified(Pixel(cropped, c[1], c[2]))
          /\ InBox(bbox, cropped.box[1] + cropped.w \div 2,
                         cropped.box[2] + cropped.h \div 2)
          /\ ~Classified(Pixel(cropped, cropped.w \div 2, cropped.h \div 2))
    /\ After({"foreground", "derive", "done"}) =>
          /\ icon.w = 1024 /\ icon.h = 1024
          /\ \A c \in Corners(1024) : Classified(icon.px[c])
    /\ After({"derive", "done"}) =>
          /\ fg.w = 1024 /\ fg.h = 1024
          /\ \A c \in Corners(1024) : fg.px[c][4] = 0
          /\ fg.px[<<512, 512>>][4] > 0

C9_Proviso ==
    /\ source.w <= 1024 /\ source.h <= 1024
    /\ source.w = source.h \/ convert_RGB(source.bg) = CanvasFill
    /\ source.box[3] - source.box[1] >= 9
    /\ source.box[1] >= 4 /\ source.box[2] >= 4
    /\ source.w - source.box[3] >= 4 /\ source.h - source.box[4] >= 4
    /\ convert_RGBA(source.mode, source.fg)[4] > 0

====
